---- MODULE Spec2Model ----
(***************************************************************************)
(* Model of the MMA845x accelerometer driver (src/src/mma_syd.py).         *)
(*                                                                         *)
(* The device is a register file reached through the I2C bus object that  *)
(* the caller hands to the driver.  The driver object is a Python object  *)
(* whose attributes come into existence when __init__ assigns them, so    *)
(* `self` is a function whose DOMAIN is the set of attributes assigned so *)
(* far; reading an attribute outside it raises AttributeError.  Python    *)
(* allocates the object before __init__ runs, so the object and the       *)
(* attributes already assigned outlive an __init__ that raises; `returned`*)
(* records whether the constructor call handed an instance to its caller. *)
(*                                                                         *)
(* The bus is the external collaborator: mem_read returns the one byte    *)
(* held by the addressed register and mem_write sends the bytes of the     *)
(* string it is given, the device storing them in consecutive registers;   *)
(* either may raise OSError.  How a str becomes bytes depends on the bus:  *)
(* a MicroPython build with unicode strings sends a character above 127    *)
(* as the two bytes of its UTF-8 form, a build with byte strings (or a     *)
(* stand-in bus that takes ord of the character) sends one byte.           *)
(***************************************************************************)
EXTENDS Integers, Sequences, FiniteSets, TLC

\* ---------------------------------------------------------------- registers
STATUS_REG == 0
OUT_X_MSB == 1
OUT_X_LSB == 2
OUT_Y_MSB == 3
OUT_Y_LSB == 4
OUT_Z_MSB == 5
OUT_Z_LSB == 6
WHO_AM_I == 13
XYZ_DATA_CFG == 14
CTRL_REG1 == 42
CTRL_REG2 == 43

RANGE_2g == 0
RANGE_4g == 1
RANGE_8g == 2

\* the two identity codes __init__ recognises (0x1A, 0x2A)
KnownIds == {26, 42}

Registers == {OUT_X_MSB, OUT_X_LSB, OUT_Y_MSB, OUT_Y_LSB, OUT_Z_MSB, OUT_Z_LSB,
              WHO_AM_I, XYZ_DATA_CFG, CTRL_REG1, CTRL_REG2}

\* ------------------------------------------------------------------- bounds
\* A call's n-th bus transaction raises OSError when n equals the fault
\* position chosen for the call; 0 is a call on a reliable bus.
MaxFault == 2

FaultPoints == 0 .. MaxFault

\* identity bytes the device may hold: both recognised codes and another
WhoValues == {26, 42, 0}

\* CTRL_REG1 contents before the driver is constructed
CtrlValues == {0, 25, 254}

\* XYZ_DATA_CFG contents before the driver is constructed: the reset value,
\* and 4g with the high-pass bit (0x11) left by an earlier user
CfgValues == {0, 17}

\* (msb, lsb) pairs held by an axis's output registers
XSamples == {<<156, 64>>, <<0, 255>>, <<128, 0>>}

\* (msb, lsb) of Y then (msb, lsb) of Z
YZSamples == {<<156, 64, 127, 255>>, <<0, 0, 0, 1>>}

\* bytes another bus user writes to CTRL_REG1
OtherCtrlValues == {0, 254}

\* the bus objects a caller may hand to the driver: one that sends a str as
\* its UTF-8 bytes and one that sends one byte per character
Buses == {[utf8 |-> TRUE], [utf8 |-> FALSE]}

\* constructor arguments
Addresses == {[isStr |-> FALSE, n |-> 29], [isStr |-> TRUE, n |-> 29]}

RangeArgs == {RANGE_2g, RANGE_4g, RANGE_8g, 7}

\* ------------------------------------------------------------ Python values
RECURSIVE BitAnd(_, _)
BitAnd(a, b) ==
    IF a = 0 \/ b = 0 THEN 0
    ELSE (a % 2) * (b % 2) + 2 * BitAnd(a \div 2, b \div 2)

RECURSIVE BitOr(_, _)
BitOr(a, b) ==
    IF a = 0 THEN b
    ELSE IF b = 0 THEN a
    ELSE (IF a % 2 = 1 \/ b % 2 = 1 THEN 1 ELSE 0) + 2 * BitOr(a \div 2, b \div 2)

\* reg1 & ~0x01 on a non-negative int: ~0x01 is ...11110, every bit but bit 0
AndNot01(x) == x - (x % 2)

\* chr (n): the one-character string whose code is n
chr(n) == <<n>>

\* ord (s): the code of the only element of a one-element string or bytes
ord(s) == s[1]

HasAttr(o, a) == a \in DOMAIN o

SetAttr(o, a, v) == (a :> v) @@ o

NoAttrs == [a \in {} |-> 0]

None == [kind |-> "None"]

Raised == [kind |-> "raise"]

IntVal(v) == [kind |-> "int", v |-> v]

\* outcome of a call: the object and the registers after it, the bus
\* transactions it issued, the exception it raised ("none" for a normal
\* return), the value it returned and the lines it printed
Res(o, R, bus, exc, ret, out) ==
    [self |-> o, regs |-> R, bus |-> bus, exc |-> exc, ret |-> ret, out |-> out]

\* ---------------------------------------------------------------------- bus
\* a transaction the driver asked for: val is the byte a read returned, or
\* the code of the character handed to a write
RdOk(reg, v) == [op |-> "r", reg |-> reg, val |-> v, ok |-> TRUE]

RdFail(reg) == [op |-> "r", reg |-> reg, val |-> 0, ok |-> FALSE]

WrOk(reg, v) == [op |-> "w", reg |-> reg, val |-> v, ok |-> TRUE]

WrFail(reg, v) == [op |-> "w", reg |-> reg, val |-> v, ok |-> FALSE]

\* i2c.mem_read (1, addr, reg): the one byte the register holds
mem_read(R, reg) == <<R[reg]>>

\* the UTF-8 form of the character whose code is n
Utf8(n) ==
    IF n < 128 THEN <<n>>
    ELSE IF n < 2048 THEN <<192 + (n \div 64), 128 + (n % 64)>>
    ELSE <<224 + (n \div 4096), 128 + ((n \div 64) % 64), 128 + (n % 64)>>

\* the bytes the bus sends for the one-character string data
WireBytes(i2c, data) == IF i2c.utf8 THEN Utf8(ord(data)) ELSE <<ord(data) % 256>>

\* i2c.mem_write (data, addr, reg): the bytes of data go to the registers
\* reg, reg + 1, ... (the device increments the register address)
mem_write(i2c, R, data, reg) ==
    LET b == WireBytes(i2c, data)
    IN  [r \in DOMAIN R |->
            IF r >= reg /\ r - reg < Len(b) THEN b[r - reg + 1] ELSE R[r]]

\* -------------------------------------------------------------------- active
\* active_write reading CTRL_REG1 again at the time of the write
active_write_mut_reread(o, R, rd, f, k) ==
    LET reg1 == BitOr(ord(mem_read(R, CTRL_REG1)), 1)
    IN  IF f = k + 2
        THEN Res(o, R, <<RdOk(CTRL_REG1, rd), WrFail(CTRL_REG1, reg1)>>,
                 "OSError", Raised, <<>>)
        ELSE Res(o, mem_write(o["i2c"], R, chr(reg1), CTRL_REG1),
                 <<RdOk(CTRL_REG1, rd), WrOk(CTRL_REG1, reg1)>>,
                 "none", None, <<>>)

\* lines 152-153 of active: the byte read from CTRL_REG1 is rd, and R is the
\* register file at the time of the write
active_write(o, R, rd, f, k) ==
    LET reg1 == BitOr(rd, 1)
    IN  IF f = k + 2
        THEN Res(o, R, <<RdOk(CTRL_REG1, rd), WrFail(CTRL_REG1, reg1)>>,
                 "OSError", Raised, <<>>)
        ELSE Res(o, mem_write(o["i2c"], R, chr(reg1), CTRL_REG1),
                 <<RdOk(CTRL_REG1, rd), WrOk(CTRL_REG1, reg1)>>,
                 "none", None, <<>>)

\* active catching a failed read and reading again
active_mut_retry(o, R, f, k) ==
    IF ~HasAttr(o, "_works") THEN Res(o, R, <<>>, "AttributeError", Raised, <<>>)
    ELSE IF ~o["_works"] THEN Res(o, R, <<>>, "none", None, <<>>)
    ELSE LET w == active_write(o, R, ord(mem_read(R, CTRL_REG1)), f, k)
         IN  IF f = k + 1
             THEN Res(w.self, w.regs, <<RdFail(CTRL_REG1)>> \o w.bus, w.exc, w.ret,
                      w.out)
             ELSE w

\* k bus transactions were issued by the caller before this one; f is the
\* call's fault position
active(o, R, f, k) ==
    IF ~HasAttr(o, "_works") THEN Res(o, R, <<>>, "AttributeError", Raised, <<>>)
    ELSE IF ~o["_works"] THEN Res(o, R, <<>>, "none", None, <<>>)
    ELSE IF f = k + 1 THEN Res(o, R, <<RdFail(CTRL_REG1)>>, "OSError", Raised, <<>>)
    ELSE active_write(o, R, ord(mem_read(R, CTRL_REG1)), f, k)

\* ------------------------------------------------------------------- standby
\* standby without its test of self._works
standby_mut_noguard(o, R, f, k) ==
    IF ~HasAttr(o, "_i2c") THEN Res(o, R, <<>>, "AttributeError", Raised, <<>>)
    ELSE IF ~HasAttr(o, "_addr") THEN Res(o, R, <<>>, "AttributeError", Raised, <<>>)
    ELSE IF f = k + 1 THEN Res(o, R, <<RdFail(CTRL_REG1)>>, "OSError", Raised, <<>>)
    ELSE LET reg1 == AndNot01(ord(mem_read(R, CTRL_REG1)))
             data == reg1 % 256
         IN  IF f = k + 2
             THEN Res(o, R, <<RdOk(CTRL_REG1, R[CTRL_REG1]), WrFail(CTRL_REG1, data)>>,
                      "OSError", Raised, <<>>)
             ELSE Res(o, mem_write(o["_i2c"], R, chr(data), CTRL_REG1),
                      <<RdOk(CTRL_REG1, R[CTRL_REG1]), WrOk(CTRL_REG1, data)>>,
                      "none", None, <<>>)

\* standby reads self._i2c and self._addr, which nothing assigns
standby(o, R, f, k) ==
    IF ~HasAttr(o, "_works") THEN Res(o, R, <<>>, "AttributeError", Raised, <<>>)
    ELSE IF ~o["_works"] THEN Res(o, R, <<>>, "none", None, <<>>)
    ELSE IF ~HasAttr(o, "_i2c") THEN Res(o, R, <<>>, "AttributeError", Raised, <<>>)
    ELSE IF ~HasAttr(o, "_addr") THEN Res(o, R, <<>>, "AttributeError", Raised, <<>>)
    ELSE IF f = k + 1 THEN Res(o, R, <<RdFail(CTRL_REG1)>>, "OSError", Raised, <<>>)
    ELSE LET reg1 == AndNot01(ord(mem_read(R, CTRL_REG1)))
             data == reg1 % 256
         IN  IF f = k + 2
             THEN Res(o, R, <<RdOk(CTRL_REG1, R[CTRL_REG1]), WrFail(CTRL_REG1, data)>>,
                      "OSError", Raised, <<>>)
             ELSE Res(o, mem_write(o["_i2c"], R, chr(data), CTRL_REG1),
                      <<RdOk(CTRL_REG1, R[CTRL_REG1]), WrOk(CTRL_REG1, data)>>,
                      "none", None, <<>>)

\* ----------------------------------------------------------------- set_range
\* __init__ calls self.set_range, but the class defines no such method: the
\* attribute lookup raises before any argument is used
set_range(o, R, r) == Res(o, R, <<>>, "AttributeError", Raised, <<>>)

\* --------------------------------------------------------------- raw samples
\* the names bound when get_ax_bits evaluates (accel_x_high << 8) + accel_low:
\* its locals and the module's globals hold no accel_low
NamesInScope == {"self", "accel_x_high", "accel_x_low", "micropython", "MMA845x",
                 "OUT_X_MSB", "OUT_X_LSB"}

\* ax_bits if ax_bits < 32768 else ax_bits - 65536
SignCorrect(ax_bits) == IF ax_bits < 32768 THEN ax_bits ELSE ax_bits - 65536

\* lines 178-184 of get_ax_bits: the byte read from OUT_X_MSB is
\* accel_x_high, and R is the register file at the time of the second read
get_ax_bits_low(o, R, accel_x_high, f, k) ==
    IF f = k + 2
    THEN Res(o, R, <<RdOk(OUT_X_MSB, accel_x_high), RdFail(OUT_X_LSB)>>,
             "OSError", Raised, <<>>)
    ELSE LET accel_x_low == ord(mem_read(R, OUT_X_LSB))
             log == <<RdOk(OUT_X_MSB, accel_x_high), RdOk(OUT_X_LSB, accel_x_low)>>
         IN  IF "accel_low" \notin NamesInScope
             THEN Res(o, R, log, "NameError", Raised, <<>>)
             \* int.from_bytes (accel_x) of an int raises TypeError
             ELSE Res(o, R, log, "TypeError", Raised, <<>>)

get_ax_bits(o, R, f, k) ==
    IF f = k + 1 THEN Res(o, R, <<RdFail(OUT_X_MSB)>>, "OSError", Raised, <<>>)
    ELSE get_ax_bits_low(o, R, ord(mem_read(R, OUT_X_MSB)), f, k)

get_ay_bits(o, R) ==
    Res(o, R, <<>>, "none", IntVal(0), <<"MMA845x clueless about Y acceleration">>)

get_az_bits(o, R) ==
    Res(o, R, <<>>, "none", IntVal(0), <<"MMA845x clueless about Z acceleration">>)

\* ------------------------------------------------------------ samples in g's
\* (bits * 0.061) / 1000, kept exact in millionths of a g
FloatVal(micro) == [kind |-> "float", micro |-> micro]

get_ax(o, R, f, k) ==
    LET b == get_ax_bits(o, R, f, k)
    IN  IF b.exc # "none" THEN b
        ELSE Res(b.self, b.regs, b.bus, "none", FloatVal(b.ret.v * 61), b.out)

get_ay(o, R) == Res(o, R, <<>>, "none", IntVal(0), <<"MMA845x uncalibrated Y">>)

get_az(o, R) == Res(o, R, <<>>, "none", IntVal(0), <<"MMA845x uncalibrated Z">>)

\* (self.get_ax (), self.get_ay (), self.get_az ()), evaluated left to right
get_accels(o, R, f, k) ==
    LET x == get_ax(o, R, f, k)
    IN  IF x.exc # "none" THEN x
        ELSE LET y == get_ay(x.self, x.regs)
                 z == get_az(y.self, y.regs)
             IN  Res(z.self, z.regs, x.bus \o y.bus \o z.bus, "none",
                     [kind |-> "tuple", x |-> x.ret, y |-> y.ret, z |-> z.ret],
                     x.out \o y.out \o z.out)

\* ------------------------------------------------------------------ __repr__
RECURSIVE Shl(_, _)
Shl(a, n) == IF n = 0 THEN a ELSE Shl(2 * a, n - 1)

repr(o, R, f, k) ==
    IF ~HasAttr(o, "_works") THEN Res(o, R, <<>>, "AttributeError", Raised, <<>>)
    ELSE IF ~o["_works"]
    THEN Res(o, R, <<>>, "none",
             [kind |-> "str", works |-> FALSE, addr |-> o["addr"].n], <<>>)
    ELSE IF f = k + 1 THEN Res(o, R, <<RdFail(CTRL_REG1)>>, "OSError", Raised, <<>>)
    ELSE LET reg1 == ord(mem_read(R, CTRL_REG1))
             log == <<RdOk(CTRL_REG1, reg1)>>
         IN  \* hex (self.addr) of a str raises TypeError
             IF o["addr"].isStr THEN Res(o, R, log, "TypeError", Raised, <<>>)
             ELSE IF ~HasAttr(o, "_range")
             THEN Res(o, R, log, "AttributeError", Raised, <<>>)
             ELSE Res(o, R, log, "none",
                      [kind |-> "str", works |-> TRUE,
                       model |-> o["_dev_id"] \div 16, addr |-> o["addr"].n,
                       range |-> Shl(1, o["_range"] + 1),
                       mode |-> IF BitAnd(reg1, 1) # 0 THEN "active" ELSE "standby"],
                      <<>>)

\* ------------------------------------------------------------------ __init__
\* 'Unknown ... at I2C address ' + address: str + int raises TypeError while
\* the message is built; only a str address lets the ValueError be raised
UnknownIdError(address) == IF address.isStr THEN "ValueError" ELSE "TypeError"

init(o, R, i2c, address, accel_range, f) ==
    LET o1 == SetAttr(SetAttr(SetAttr(o, "i2c", i2c), "addr", address),
                      "accel_range", RANGE_2g)
    IN  IF f = 1 THEN Res(o1, R, <<RdFail(WHO_AM_I)>>, "OSError", Raised, <<>>)
        ELSE LET dev_id == ord(mem_read(R, WHO_AM_I))
                 o2 == SetAttr(o1, "_dev_id", dev_id)
                 log == <<RdOk(WHO_AM_I, dev_id)>>
             IN  IF dev_id \notin KnownIds
                 THEN Res(SetAttr(o2, "_works", FALSE), R, log,
                          UnknownIdError(address), Raised, <<>>)
                 ELSE LET o3 == SetAttr(o2, "_works", TRUE)
                          s == standby(o3, R, f, 1)
                      IN  IF s.exc # "none"
                          THEN Res(s.self, s.regs, log \o s.bus, s.exc, Raised, <<>>)
                          ELSE LET g == set_range(s.self, s.regs, s.self["accel_range"])
                               IN  Res(g.self, g.regs, log \o s.bus \o g.bus,
                                       g.exc, IF g.exc = "none" THEN None ELSE Raised,
                                       <<>>)

\* ---------------------------------------------------------------------- state
\* pend is the call the driver is inside of, between two of its bus
\* transactions; it is Idle whenever a call runs without another bus user
VARIABLES regs, self, phase, returned, args, last, prev, pend

vars == <<regs, self, phase, returned, args, last, prev, pend>>

Idle == [op |-> "idle"]

NoArgs == [address |-> [isStr |-> FALSE, n |-> 0], accel_range |-> 0]

\* a finished call: R is the register file when it began, S the register
\* file its last bus transaction found
Call(op, arg, f, r, R, S, o) ==
    [op |-> op, arg |-> arg, fault |-> f, exc |-> r.exc, ret |-> r.ret,
     bus |-> r.bus, out |-> r.out, pre |-> R, seen |-> S, selfPre |-> o]

NoCall == [op |-> "none", arg |-> 0, fault |-> 0, exc |-> "none", ret |-> None,
           bus |-> <<>>, out |-> <<>>, pre |-> [r \in Registers |-> 0],
           seen |-> [r \in Registers |-> 0], selfPre |-> NoAttrs]

\* what is kept of the call before the last one
Summary(c) == [op |-> c.op, exc |-> c.exc]

InitWith(Ws, Cs, Gs, Xs, YZs) ==
    /\ \E w \in Ws, c \in Cs, g \in Gs, x \in Xs, yz \in YZs :
          regs = [r \in Registers |->
                    CASE r = WHO_AM_I -> w
                      [] r = CTRL_REG1 -> c
                      [] r = CTRL_REG2 -> 0
                      [] r = XYZ_DATA_CFG -> g
                      [] r = OUT_X_MSB -> x[1]
                      [] r = OUT_X_LSB -> x[2]
                      [] r = OUT_Y_MSB -> yz[1]
                      [] r = OUT_Y_LSB -> yz[2]
                      [] r = OUT_Z_MSB -> yz[3]
                      [] r = OUT_Z_LSB -> yz[4]]
    /\ self = NoAttrs
    /\ phase = "new"
    /\ returned = FALSE
    /\ args = NoArgs
    /\ last = NoCall
    /\ prev = Summary(NoCall)
    /\ pend = Idle

Init == InitWith(WhoValues, CtrlValues, CfgValues, XSamples, YZSamples)

\* MMA845x (i2c, address, accel_range)
ConstructWith(Bs, As, Rs, Fs) ==
    /\ phase = "new"
    /\ pend = Idle
    /\ \E i2c \in Bs, address \in As, accel_range \in Rs, f \in Fs :
          LET r == init(self, regs, i2c, address, accel_range, f)
          IN  /\ self' = r.self
              /\ regs' = r.regs
              /\ returned' = (r.exc = "none")
              /\ args' = [address |-> address, accel_range |-> accel_range]
              /\ last' = Call("__init__", accel_range, f, r, regs, regs, self)
    /\ phase' = "ready"
    /\ prev' = Summary(last)
    /\ pend' = Idle

\* a call that runs from beginning to end with the bus to itself
Finish(op, arg, f, r) ==
    /\ pend = Idle
    /\ self' = r.self
    /\ regs' = r.regs
    /\ last' = Call(op, arg, f, r, regs, regs, self)
    /\ prev' = Summary(last)
    /\ pend' = Idle
    /\ UNCHANGED <<phase, returned, args>>

Construct == ConstructWith(Buses, Addresses, RangeArgs, FaultPoints)

CallActive ==
    /\ phase = "ready"
    /\ \E f \in FaultPoints : Finish("active", 0, f, active(self, regs, f, 0))

CallStandbyWith(Fs) ==
    /\ phase = "ready"
    /\ \E f \in Fs : Finish("standby", 0, f, standby(self, regs, f, 0))

CallStandby == CallStandbyWith(FaultPoints)

CallSetRange ==
    /\ phase = "ready"
    /\ \E r \in RangeArgs : Finish("set_range", r, 0, set_range(self, regs, r))

CallGetAxBits ==
    /\ phase = "ready"
    /\ \E f \in FaultPoints : Finish("get_ax_bits", 0, f, get_ax_bits(self, regs, f, 0))

CallGetAyBits ==
    /\ phase = "ready"
    /\ Finish("get_ay_bits", 0, 0, get_ay_bits(self, regs))

CallGetAzBits ==
    /\ phase = "ready"
    /\ Finish("get_az_bits", 0, 0, get_az_bits(self, regs))

CallGetAx ==
    /\ phase = "ready"
    /\ \E f \in FaultPoints : Finish("get_ax", 0, f, get_ax(self, regs, f, 0))

CallGetAy ==
    /\ phase = "ready"
    /\ Finish("get_ay", 0, 0, get_ay(self, regs))

CallGetAz ==
    /\ phase = "ready"
    /\ Finish("get_az", 0, 0, get_az(self, regs))

CallGetAccels ==
    /\ phase = "ready"
    /\ \E f \in FaultPoints : Finish("get_accels", 0, f, get_accels(self, regs, f, 0))

CallReprWith(Fs) ==
    /\ phase = "ready"
    /\ \E f \in Fs : Finish("__repr__", 0, f, repr(self, regs, f, 0))

CallRepr == CallReprWith(FaultPoints)

Next ==
    \/ Construct
    \/ CallActive
    \/ CallStandby
    \/ CallSetRange
    \/ CallGetAxBits
    \/ CallGetAyBits
    \/ CallGetAzBits
    \/ CallGetAx
    \/ CallGetAy
    \/ CallGetAz
    \/ CallGetAccels
    \/ CallRepr

Spec == Init /\ [][Next]_vars

\* ------------------------------------------------- the bus with other users
\* The driver takes no lock: between two bus transactions of one call another
\* user of the bus, or the device itself, may change the registers.  A call
\* with two transactions is therefore two steps, with pend holding the
\* driver's local variables in between.  The bus is reliable here, and the
\* driver is constructed as in the class's example, with an int address and
\* the default range.
Reliable == {0}

BusWhoValues == {26, 0}

BusCtrlValues == {0, 25}

BusXSamples == {<<0, 255>>, <<156, 64>>}

InitBus == InitWith(BusWhoValues, BusCtrlValues, {0}, {<<0, 255>>}, {<<0, 0, 0, 1>>})

ConstructBus ==
    ConstructWith(Buses, {[isStr |-> FALSE, n |-> 29]}, {RANGE_2g}, Reliable)

StandbyBus == CallStandbyWith(Reliable)

ReprBus == CallReprWith(Reliable)

Pending(op, f, rd) == [op |-> op, fault |-> f, rd |-> rd, pre |-> regs]

\* the second step of a call: r is its outcome on the registers it found
FinishPending(r) ==
    /\ self' = r.self
    /\ regs' = r.regs
    /\ last' = Call(pend.op, 0, pend.fault, r, pend.pre, regs, self)
    /\ prev' = Summary(last)
    /\ pend' = Idle
    /\ UNCHANGED <<phase, returned, args>>

\* active () up to and including its read of CTRL_REG1 (lines 150-151)
ActiveRead ==
    /\ phase = "ready"
    /\ pend = Idle
    /\ \E f \in Reliable :
          IF HasAttr(self, "_works") /\ self["_works"] /\ f # 1
          THEN /\ pend' = Pending("active", f, ord(mem_read(regs, CTRL_REG1)))
               /\ UNCHANGED <<regs, self, phase, returned, args, last, prev>>
          ELSE Finish("active", 0, f, active(self, regs, f, 0))

\* active () from reg1 |= 0x01 to its write of CTRL_REG1 (lines 152-153)
ActiveWrite ==
    /\ pend.op = "active"
    /\ FinishPending(active_write(self, regs, pend.rd, pend.fault, 0))

\* get_ax_bits () up to and including its read of OUT_X_MSB (line 177)
GetAxBitsReadMsb ==
    /\ phase = "ready"
    /\ pend = Idle
    /\ \E f \in Reliable :
          IF f # 1
          THEN /\ pend' = Pending("get_ax_bits", f, ord(mem_read(regs, OUT_X_MSB)))
               /\ UNCHANGED <<regs, self, phase, returned, args, last, prev>>
          ELSE Finish("get_ax_bits", 0, f, get_ax_bits(self, regs, f, 0))

\* get_ax_bits () from its read of OUT_X_LSB on (lines 178-184)
GetAxBitsReadLsb ==
    /\ pend.op = "get_ax_bits"
    /\ FinishPending(get_ax_bits_low(self, regs, pend.rd, pend.fault, 0))

\* another user of the bus writes CTRL_REG1
OtherWritesCtrl ==
    /\ phase = "ready"
    /\ \E v \in OtherCtrlValues : regs' = [regs EXCEPT ![CTRL_REG1] = v]
    /\ UNCHANGED <<self, phase, returned, args, last, prev, pend>>

\* the X output registers take a new sample
SampleUpdate ==
    /\ phase = "ready"
    /\ \E x \in BusXSamples :
          regs' = [regs EXCEPT ![OUT_X_MSB] = x[1], ![OUT_X_LSB] = x[2]]
    /\ UNCHANGED <<self, phase, returned, args, last, prev, pend>>

NextBus ==
    \/ ConstructBus
    \/ ActiveRead
    \/ ActiveWrite
    \/ StandbyBus
    \/ GetAxBitsReadMsb
    \/ GetAxBitsReadLsb
    \/ ReprBus
    \/ OtherWritesCtrl
    \/ SampleUpdate

SpecBus == InitBus /\ [][NextBus]_vars

\* ==================================================================== claims
LegalRanges == {RANGE_2g, RANGE_4g, RANGE_8g}

\* the object passed the identity check
ValidHandle == HasAttr(self, "_works") /\ self["_works"]

\* the two's-complement reading of a 16-bit word
Signed16(v) == IF v < 32768 THEN v ELSE v - 65536

\* the 16-bit word held by a register pair before the last call
Word(msb, lsb) == last.pre[msb] * 256 + last.pre[lsb]

\* the g-range selected by bits 0-1 of XYZ_DATA_CFG: 2, 4 or 8
ConfiguredG == Shl(2, regs[XYZ_DATA_CFG] % 4)

OkWrites(bus, reg) ==
    {i \in 1 .. Len(bus) : bus[i].op = "w" /\ bus[i].reg = reg /\ bus[i].ok}

\* the WHO_AM_I read of the last call delivered a byte
ReadIdentity ==
    /\ Len(last.bus) >= 1
    /\ last.bus[1] = RdOk(WHO_AM_I, regs[WHO_AM_I])

\* C1: a construction that reads an identity byte outside {0x1A, 0x2A} ends
\* in the unsupported-device error (the ValueError the constructor means to
\* raise), in no other error, and returns no instance.
C1_UnsupportedDevice ==
    (last.op = "__init__" /\ ReadIdentity /\ regs[WHO_AM_I] \notin KnownIds)
        => (last.exc = "ValueError" /\ ~returned)

\* C2: a construction on a reliable bus with a recognised identity and a
\* legal range succeeds, writes CTRL_REG1 with bit 0 clear, then writes
\* XYZ_DATA_CFG with the range's encoding in bits 0-1.
C2_ConstructStandbyThenRange ==
    (/\ last.op = "__init__"
     /\ last.fault = 0
     /\ regs[WHO_AM_I] \in KnownIds
     /\ args.accel_range \in LegalRanges)
        => (/\ last.exc = "none"
            /\ returned
            /\ regs[CTRL_REG1] % 2 = 0
            /\ regs[XYZ_DATA_CFG] % 4 = args.accel_range
            /\ \E i \in OkWrites(last.bus, CTRL_REG1) :
                  \E j \in OkWrites(last.bus, XYZ_DATA_CFG) : i < j)

\* C3: a range change right after a completed active() on a recognised
\* device fails with the invalid-mode error, writes nothing to XYZ_DATA_CFG
\* and leaves the registers and the driver's fields as they were.
C3_SetRangeWhileActive ==
    (/\ last.op = "set_range"
     /\ prev.op = "active"
     /\ prev.exc = "none"
     /\ ValidHandle)
        => (/\ last.exc = "InvalidModeForOperation"
            /\ OkWrites(last.bus, XYZ_DATA_CFG) = {}
            /\ regs = last.pre
            /\ self = last.selfPre)

\* C4: no call changes bits 1-7 of CTRL_REG1, and every byte the driver
\* writes to CTRL_REG1 is the byte it has just read from it with at most
\* bit 0 changed, on any bus.
C4_CtrlReg1OtherBitsKept ==
    (last.op # "none")
        => (/\ regs[CTRL_REG1] \div 2 = last.pre[CTRL_REG1] \div 2
            /\ \A i \in 1 .. Len(last.bus) :
                  (last.bus[i].op = "w" /\ last.bus[i].reg = CTRL_REG1)
                      => (/\ i > 1
                          /\ last.bus[i - 1] = RdOk(CTRL_REG1, last.pre[CTRL_REG1])
                          /\ last.bus[i].val \div 2 = last.bus[i - 1].val \div 2))

\* C5: a raw X read on a reliable bus returns the two's-complement value of
\* OUT_X_MSB * 256 + OUT_X_LSB, which lies in -32768 .. 32767.
C5_RawXSigned ==
    (last.op = "get_ax_bits" /\ last.fault = 0)
        => (/\ last.exc = "none"
            /\ last.ret = IntVal(Signed16(Word(OUT_X_MSB, OUT_X_LSB)))
            /\ last.ret.v \in -32768 .. 32767)

\* C6: a raw Y (Z) read returns the two's-complement value of the Y (Z)
\* register pair, obtained from two reads of that pair.
C6_RawYZSigned ==
    /\ (last.op = "get_ay_bits")
        => (/\ last.exc = "none"
            /\ last.ret = IntVal(Signed16(Word(OUT_Y_MSB, OUT_Y_LSB)))
            /\ last.bus = <<RdOk(OUT_Y_MSB, last.pre[OUT_Y_MSB]),
                            RdOk(OUT_Y_LSB, last.pre[OUT_Y_LSB])>>)
    /\ (last.op = "get_az_bits")
        => (/\ last.exc = "none"
            /\ last.ret = IntVal(Signed16(Word(OUT_Z_MSB, OUT_Z_LSB)))
            /\ last.bus = <<RdOk(OUT_Z_MSB, last.pre[OUT_Z_MSB]),
                            RdOk(OUT_Z_LSB, last.pre[OUT_Z_LSB])>>)

\* a returned number in units of 1 / (65536 * 1000000) g
Scaled(ret) ==
    IF ret.kind = "float" THEN ret.micro * 65536 ELSE ret.v * 1000000 * 65536

\* C7: a g-unit read of any axis on a reliable bus returns the axis's signed
\* raw value v times 2 r / 65536 for the configured range r:
\* result * 65536 = v * 2 * r.
C7_GUnits ==
    /\ (last.op = "get_ax" /\ last.fault = 0)
        => (/\ last.exc = "none"
            /\ Scaled(last.ret)
                 = Signed16(Word(OUT_X_MSB, OUT_X_LSB)) * 2 * ConfiguredG * 1000000)
    /\ (last.op = "get_ay")
        => (/\ last.exc = "none"
            /\ Scaled(last.ret)
                 = Signed16(Word(OUT_Y_MSB, OUT_Y_LSB)) * 2 * ConfiguredG * 1000000)
    /\ (last.op = "get_az")
        => (/\ last.exc = "none"
            /\ Scaled(last.ret)
                 = Signed16(Word(OUT_Z_MSB, OUT_Z_LSB)) * 2 * ConfiguredG * 1000000)

\* C8: the description produced right after a construction that asked a
\* recognised device for the legal range R reports the range as 2, 4 or 8 g
\* according to R.
C8_ReprReportsRange ==
    (/\ last.op = "__repr__"
     /\ last.fault = 0
     /\ prev.op = "__init__"
     /\ ValidHandle
     /\ args.accel_range \in LegalRanges)
        => (/\ last.exc = "none"
            /\ last.ret.kind = "str"
            /\ last.ret.works
            /\ last.ret.range = Shl(2, args.accel_range))

\* C9: a construction with a range outside {2g, 4g, 8g} fails with the
\* invalid-range error without any bus transaction and returns no instance.
C9_InvalidRangeBeforeBus ==
    (last.op = "__init__" /\ args.accel_range \notin LegalRanges)
        => (/\ last.exc = "InvalidRange"
            /\ last.bus = <<>>
            /\ ~returned)

\* C10: on a recognised device and a reliable bus, a standby() that follows
\* a standby(), and an active() that follows an active(), completes, rewrites
\* the byte CTRL_REG1 already holds and leaves every register as the first
\* call left it.
C10_Idempotent ==
    \A op \in {"standby", "active"} :
        (/\ last.op = op
         /\ prev.op = op
         /\ ValidHandle
         /\ last.fault = 0
         /\ prev.exc # "OSError")
            => (/\ prev.exc = "none"
                /\ last.exc = "none"
                /\ regs = last.pre
                /\ \E i \in OkWrites(last.bus, CTRL_REG1) :
                      last.bus[i].val = last.pre[CTRL_REG1])

\* C11: the description of a recognised device, on a reliable bus, reports
\* the mode read from CTRL_REG1 at the time of the call: 'active' exactly
\* when bit 0 of the register is 1, whoever wrote it last.
C11_ReprModeFromRegister ==
    (last.op = "__repr__" /\ ValidHandle /\ last.fault = 0)
        => (/\ last.exc = "none"
            /\ last.ret.kind = "str"
            /\ last.ret.works
            /\ (last.ret.mode = "active") = (last.pre[CTRL_REG1] % 2 = 1))

FailedOps(bus) == {i \in 1 .. Len(bus) : ~bus[i].ok}

\* C12: when a bus transaction of active(), standby() or a range change
\* fails, the call raises the transport error, the failed transaction is the
\* last one the call issues, and the driver's fields are as before the call.
C12_TransportErrorPropagates ==
    (last.op \in {"active", "standby", "set_range"} /\ FailedOps(last.bus) # {})
        => (/\ last.exc = "OSError"
            /\ FailedOps(last.bus) = {Len(last.bus)}
            /\ self = last.selfPre)

\* C12 witness: active() on a recognised device read CTRL_REG1, its write
\* failed, and the call raised the transport error.
C12_Witness ==
    /\ last.op = "active"
    /\ ValidHandle
    /\ last.exc = "OSError"
    /\ last.bus = <<RdOk(CTRL_REG1, last.pre[CTRL_REG1]),
                    WrFail(CTRL_REG1, BitOr(last.pre[CTRL_REG1], 1))>>
    /\ regs = last.pre

\* C13: on a recognised device and a reliable bus with no other user, every
\* active() and standby() completes, and CTRL_REG1 bit 0 is then 1 after
\* active() and 0 after standby().
C13_ModeFollowsLastCall ==
    (last.op \in {"active", "standby"} /\ ValidHandle /\ last.fault = 0)
        => (/\ last.exc = "none"
            /\ regs[CTRL_REG1] % 2 = (IF last.op = "active" THEN 1 ELSE 0))

\* C14: a change to a legal range r in standby writes XYZ_DATA_CFG with r in
\* bits 0-1 and bits 2-7 as they were, and the driver then stores r.
C14_RangeReadModifyWrite ==
    (/\ last.op = "set_range"
     /\ ValidHandle
     /\ last.arg \in LegalRanges
     /\ last.pre[CTRL_REG1] % 2 = 0)
        => (/\ last.exc = "none"
            /\ \E i \in OkWrites(last.bus, XYZ_DATA_CFG) :
                  /\ last.bus[i].val % 4 = last.arg
                  /\ last.bus[i].val \div 4 = last.pre[XYZ_DATA_CFG] \div 4
            /\ HasAttr(self, "_range")
            /\ self["_range"] = last.arg)

\* C15: on a recognised device, the range field the description reads
\* (_range) and the driver's stored range (accel_range) equal the range
\* encoded in bits 0-1 of XYZ_DATA_CFG.
C15_RangeMatchesRegister ==
    ValidHandle
        => (/\ HasAttr(self, "_range")
            /\ self["_range"] = regs[XYZ_DATA_CFG] % 4
            /\ self["accel_range"] = regs[XYZ_DATA_CFG] % 4)

RawReads == {<<"get_ax_bits", OUT_X_MSB, OUT_X_LSB>>,
             <<"get_ay_bits", OUT_Y_MSB, OUT_Y_LSB>>,
             <<"get_az_bits", OUT_Z_MSB, OUT_Z_LSB>>}

\* C16: a raw read of any axis on a reliable bus issues exactly the read of
\* the axis's MSB register then the read of its LSB register, no write, and
\* changes no register and no field of the driver.
C16_RawReadTwoFreshReads ==
    \A a \in RawReads :
        (last.op = a[1] /\ last.fault = 0)
            => (/\ last.bus = <<RdOk(a[2], last.pre[a[2]]), RdOk(a[3], last.pre[a[3]])>>
                /\ regs = last.pre
                /\ self = last.selfPre)

\* the identity byte was read and is not a recognised one
Unrecognised == HasAttr(self, "_works") /\ ~self["_works"]

\* C17: on a device whose identity was not recognised, active() and
\* standby() return normally without any bus transaction and change
\* nothing, and the description reports no working device without any bus
\* transaction.
C17_InertOnUnrecognised ==
    Unrecognised
        => (/\ (last.op \in {"active", "standby"})
                => (/\ last.exc = "none"
                    /\ last.ret = None
                    /\ last.bus = <<>>
                    /\ regs = last.pre
                    /\ self = last.selfPre)
            /\ (last.op = "__repr__")
                => (/\ last.exc = "none"
                    /\ last.ret.kind = "str"
                    /\ ~last.ret.works
                    /\ last.bus = <<>>
                    /\ regs = last.pre))

\* C17 witness: on an unrecognised device standby() has returned normally
\* after active() did, although the bus would have failed its first
\* transaction.
C17_Witness ==
    /\ Unrecognised
    /\ last.op = "standby"
    /\ last.fault = 1
    /\ last.exc = "none"
    /\ last.bus = <<>>
    /\ prev = [op |-> "active", exc |-> "none"]

\* C18: when the X output registers change between the MSB read and the LSB
\* read of a raw X read, the call returns the signed value of the old MSB
\* with the new LSB.
C18_TornReadReturned ==
    (/\ last.op = "get_ax_bits"
     /\ last.fault = 0
     /\ <<last.seen[OUT_X_MSB], last.seen[OUT_X_LSB]>>
            # <<last.pre[OUT_X_MSB], last.pre[OUT_X_LSB]>>)
        => (/\ last.exc = "none"
            /\ last.ret = IntVal(Signed16(last.pre[OUT_X_MSB] * 256
                                          + last.seen[OUT_X_LSB])))

\* C19: the byte a completed active() writes to CTRL_REG1 is the byte it
\* read when it began with bit 0 set, whatever the register holds at the
\* time of the write: a value another user wrote in between is overwritten.
C19_StaleWriteOverwrites ==
    (last.op = "active" /\ ValidHandle /\ last.exc = "none")
        => last.bus = <<RdOk(CTRL_REG1, last.pre[CTRL_REG1]),
                        WrOk(CTRL_REG1, BitOr(last.pre[CTRL_REG1], 1))>>

\* C19 witness: active() read 0, another user wrote 254, and the driver's
\* write left CTRL_REG1 at 1.
C19_Witness ==
    /\ last.op = "active"
    /\ last.exc = "none"
    /\ last.pre[CTRL_REG1] = 0
    /\ last.seen[CTRL_REG1] = 254
    /\ regs[CTRL_REG1] = 1
====
